---- MODULE Spec2Model ----
(***************************************************************************)
(* gpu_dispatch: a Dispatcher fans a stream of tasks out to one worker     *)
(* process per GPU over a bounded task queue and funnels the results back  *)
(* over an unbounded result queue to the monitor loop, which dispatches    *)
(* the user callbacks.  The model follows dispatcher.py and worker.py      *)
(* statement by statement: one action per step between two points where    *)
(* another thread or process can observe or change the shared state.       *)
(* Timeouts of put/get/join are abstracted to nondeterminism: a timed      *)
(* operation may give up whenever it cannot complete.                      *)
(***************************************************************************)
EXTENDS Integers, Sequences, FiniteSets, TLC

\* ---------------------------------------------------------------- bounds
\* Largest number of items the input stream yields to a single worker.
MaxTasks == 3

\* Largest number of items the input stream yields to a pool of two workers.
MaxTasksPool == 1

\* Largest number of items of the long stream that oversubscribes one worker and
\* a queue of one slot (the runs of SpecLong).
MaxTasksLong == 4

\* Largest number of items of the stream in the runs checked for liveness.
MaxTasksLive == 2

\* Largest queue_size a Dispatcher is constructed with.
MaxQueue == 1

\* Largest number of items of the stream in the runs under the statistics
\* overlay.
MaxTasksRich == 2

\* ----------------------------------------------------- program constants
\* The stream of the runs that compare timeouts has this many items.
MaxTasksAlarm == 1

\* task_timeout ranges over 0.0, 0.1, ... up to this many tenths of a second.
MaxTenths == 30

\* run is called again on the same Dispatcher at most this many times.
MaxReruns == 1

\* The stop sentinel put on the task queue (None in the source).
STOP == -1

\* task_id field of a message that carries none (SetupFailed, CleanupFailed).
NoTask == -2

\* gpu_ids lists a Dispatcher can be constructed with (never empty).
GpuLists == {<<0>>, <<0, 1>>}

TaskIds == 0..(MaxTasksLong - 1)

AllGpus == {0, 1}

VARIABLES
    worker_cls,       \* the worker_cls argument: "BaseWorker" for a subclass of it
    is_main_thread,   \* run is called on the main thread of the process
    created,          \* run has created the queues and the shutdown event
    gpu_ids,          \* self.gpu_ids, also the order of the processes list
    queue_size,       \* self.queue_size
    task_timeout,     \* "None" or "set": the task_timeout argument of run
    timeout_tenths,   \* the value of task_timeout when it is set, in tenths of a second
    past_runs,        \* calls of run on this Dispatcher that have ended
    past_shutdown,    \* the shutdown event of the run before was set when its _monitor was left
    stream_max,       \* the generator yields at most this many items
    shutdown_event,   \* the mp.Event created by run
    handlers,         \* "handler" while run's signal_handler is installed, else "default"
    task_queue,       \* bounded mp.Queue: task ids and STOP sentinels
    result_queue,     \* unbounded mp.Queue of result messages
    queues_closed,    \* both queues were drained and closed by _cleanup_queues
    feeder_pc,        \* position of the feeder thread
    task_id,          \* the feeder's local task_id
    n_read,           \* items the feeder has taken from the generator
    n_put,            \* puts of the feeder that succeeded
    put_log,          \* the task ids of those puts, in order
    feeder_exit,      \* what made the feeder leave its loop
    task_count,       \* task_count[0]
    feeder_stop,      \* the threading.Event feeder_stop
    w_pc,             \* position of each worker process
    w_task,           \* the task a worker holds
    w_alarm,          \* seconds the pending SIGALRM of the worker was armed with, 0: none
    run_pc,           \* position of run on the calling thread
    sd_i,             \* index of the for loops of _shutdown_workers
    results_received, \* local of _monitor
    active_workers,   \* local of _monitor
    exc,              \* the exception run is propagating
    mon_exit,         \* how _monitor was left
    shutdown_at_exit, \* the shutdown event was set when _monitor was left
    delivered,        \* per task: the callbacks dispatched for it, in order
    setup_fail_cb,    \* per worker: on_setup_fail invocations
    on_exit_calls,    \* on_exit invocations
    emitted,          \* per task: terminal messages put on the result queue
    dequeued,         \* per task: how many times a worker took it off the task queue
    overlay,          \* run was started by RichDispatcher.run: the callbacks are its wrappers
    user_callbacks,   \* the callbacks the caller supplied (the others are None)
    stats,            \* RichDispatcher._stats
    lock,             \* RichDispatcher._lock is held
    cb_call,          \* the callback invocation a wrapper is handling
    snapshot,         \* what the last _snapshot() returned
    calls,            \* the invocations the dispatcher made of the wrappers, in order
    forwarded,        \* the invocations the wrappers made of the user's callbacks, in order
    updated           \* how many wrappers have left their locked section

vars == <<worker_cls, is_main_thread, created, gpu_ids, queue_size, task_timeout,
          timeout_tenths, past_runs, past_shutdown, stream_max, shutdown_event, handlers,
          task_queue, result_queue, queues_closed, feeder_pc, task_id, n_read, n_put,
          task_count, feeder_stop, w_pc, w_task, w_alarm, run_pc, sd_i,
          results_received, active_workers, exc, mon_exit, shutdown_at_exit, delivered,
          setup_fail_cb, on_exit_calls, emitted, dequeued, put_log, feeder_exit,
          overlay, user_callbacks, stats, lock, cb_call, snapshot, calls, forwarded,
          updated>>

feederVars == <<feeder_pc, task_id, n_read, task_count, feeder_stop, feeder_exit>>
workerVars == <<w_pc, w_task, w_alarm>>
configVars == <<worker_cls, is_main_thread, created, gpu_ids, queue_size, task_timeout,
                timeout_tenths, past_runs, past_shutdown, stream_max, overlay,
                user_callbacks>>
historyVars == <<delivered, setup_fail_cb, on_exit_calls, emitted, dequeued, n_put, put_log>>
monitorVars == <<results_received, active_workers>>
overlayVars == <<stats, lock, cb_call, snapshot, calls, forwarded, updated>>

\* ---------------------------------------------------------------- helpers
Workers == {gpu_ids[i] : i \in DOMAIN gpu_ids}

NumWorkers == Len(gpu_ids)

\* The length at which the model cuts the input stream of a pool.
StreamLimit(gpus) == IF Len(gpus) = 1 THEN MaxTasks ELSE MaxTasksPool

Msg(type, t, w) == [type |-> type, task_id |-> t, worker_id |-> w]

Terminal == {"TaskSuccess", "TaskError", "TaskTimeout"}

\* Positions of a worker process that has exited or was killed.
DeadPcs == {"not_spawned", "setup_failed", "exited", "crashed", "terminated", "killed"}

is_alive(w) == w_pc[w] \notin DeadPcs

\* Positions of run inside its finally block.
FinallyPcs == {"restore", "on_exit", "set_shutdown", "sentinels", "join",
               "terminate", "kill", "cleanup"}

RunDone == run_pc \in {"returned", "raised"}

\* The callbacks that report the end of a task.
TerminalCallbacks == {"on_success", "on_error", "on_timeout"}

\* The callbacks run takes.
Callbacks == {"on_task_start", "on_success", "on_error", "on_timeout",
              "on_setup_fail", "on_exit"}

\* A callback invocation: the callback and its task_id and worker_id arguments.
Call(cb, t, w) == [cb |-> cb, task_id |-> t, worker_id |-> w]

\* No invocation is being handled.
NoCall == Call("none", NoTask, NoTask)

\* rich_dispatcher.py lines 318-339: the record _reset_stats builds. The clock
\* readings (start_time, end_time, task_start_time, last_duration) are left out.
ResetStats ==
    [total |-> 0, completed |-> 0, failed |-> 0, timeouts |-> 0, setup_failures |-> 0,
     gpu_status |-> [w \in Workers |->
                       [status |-> "initializing", current_task |-> NoTask,
                        completed |-> 0, failed |-> 0, timeouts |-> 0]]]

\* -------------------------------------------------------------------- Init
\* The task_timeout a run is given when it is given one: 1.0 second.
OneSecond == timeout_tenths = 10

\* Nothing of a run exists: no queue, no event, no process, no thread.
Fresh ==
    /\ created = FALSE
    /\ past_runs = 0
    /\ past_shutdown = FALSE
    /\ task_timeout = "None"
    /\ shutdown_event = FALSE
    /\ handlers = "default"
    /\ task_queue = <<>>
    /\ result_queue = <<>>
    /\ queues_closed = FALSE
    /\ feeder_pc = "not_started"
    /\ task_id = 0
    /\ n_read = 0
    /\ task_count = 0
    /\ feeder_stop = FALSE
    /\ w_pc = [w \in AllGpus |-> "not_spawned"]
    /\ w_task = [w \in AllGpus |-> NoTask]
    /\ w_alarm = [w \in AllGpus |-> 0]
    /\ sd_i = 0
    /\ results_received = 0
    /\ active_workers = 0
    /\ exc = "none"
    /\ mon_exit = "none"
    /\ delivered = [t \in TaskIds |-> <<>>]
    /\ setup_fail_cb = [w \in AllGpus |-> 0]
    /\ on_exit_calls = 0
    /\ emitted = [t \in TaskIds |-> 0]
    /\ dequeued = [t \in TaskIds |-> 0]
    /\ n_put = 0
    /\ put_log = <<>>
    /\ feeder_exit = "none"
    /\ shutdown_at_exit = FALSE
    /\ stats = ResetStats
    /\ lock = FALSE
    /\ cb_call = NoCall
    /\ snapshot = ResetStats
    /\ calls = <<>>
    /\ forwarded = <<>>
    /\ updated = 0

\* The Dispatcher is used directly, on the main thread, and handed every
\* callback.
Direct ==
    /\ is_main_thread = TRUE
    /\ overlay = FALSE
    /\ user_callbacks = Callbacks
    /\ OneSecond

\* A constructed Dispatcher on which run has not been called yet.
Constructed ==
    /\ worker_cls = "BaseWorker"
    /\ Direct
    /\ queue_size \in 1..MaxQueue
    /\ run_pc = "idle"
    /\ Fresh

Init ==
    /\ gpu_ids \in GpuLists
    /\ stream_max = StreamLimit(gpu_ids)
    /\ Constructed

\* One worker and a stream long enough to fill the worker, the queue and the
\* feeder's hands and still go on.
InitLong ==
    /\ gpu_ids = <<0>>
    /\ stream_max = MaxTasksLong
    /\ Constructed

\* One worker and a stream that can fill the queue while the worker is busy.
InitLive ==
    /\ gpu_ids = <<0>>
    /\ stream_max = MaxTasksLive
    /\ Constructed

\* The arguments a caller can hand to Dispatcher(...), valid or not; nothing is
\* constructed yet.
InitConfig ==
    /\ worker_cls \in {"BaseWorker", "other"}
    /\ Direct
    /\ gpu_ids \in {<<>>} \cup GpuLists
    /\ queue_size \in 0..MaxQueue
    /\ stream_max = (IF Len(gpu_ids) = 1 THEN MaxTasksLive ELSE MaxTasksPool)
    /\ run_pc = "new"
    /\ Fresh

\* ------------------------------------------------------- Dispatcher.__init__
\* Mutant of ValidGpuIds: the list is not looked at.
ValidGpuIds_Any(gpus) == TRUE

\* line 58: an empty list is refused.
ValidGpuIds(gpus) == gpus # <<>>

\* lines 55-67: the worker class and the gpu list are validated, the arguments
\* stored; nothing else is created.
Construct ==
    /\ run_pc = "new"
    /\ IF worker_cls # "BaseWorker"
         THEN run_pc' = "init_raised" /\ exc' = "TypeError"
         ELSE IF ~ValidGpuIds(gpu_ids)
         THEN run_pc' = "init_raised" /\ exc' = "ValueError"
         ELSE run_pc' = "idle" /\ UNCHANGED exc
    /\ UNCHANGED <<configVars, overlayVars, shutdown_event, handlers, task_queue, result_queue,
                   queues_closed, feederVars, workerVars, sd_i,
                   monitorVars, mon_exit, shutdown_at_exit, historyVars>>

\* ------------------------------------------------------------ Dispatcher.run
\* lines 97-102: signal_handler is installed for SIGINT and SIGTERM only when
\* run is on the main thread; "default" stands for the handlers run found.
InstalledHandlers == IF is_main_thread THEN "handler" ELSE handlers

\* run, lines 87-133 and 250-251: the queues and the event are created, the
\* handlers installed, one process per gpu started, the feeder thread started,
\* and _monitor entered.
RunStart ==
    /\ run_pc = "idle"
    /\ created' = TRUE
    /\ \E tt \in {"None", "set"} : task_timeout' = tt
    /\ handlers' = InstalledHandlers
    /\ w_pc' = [w \in AllGpus |-> IF w \in Workers THEN "setup" ELSE "not_spawned"]
    /\ feeder_pc' = "iter"
    /\ active_workers' = NumWorkers
    /\ results_received' = 0
    /\ run_pc' = "mon_shutdown_chk"
    /\ UNCHANGED <<worker_cls, is_main_thread, gpu_ids, queue_size, timeout_tenths,
                   past_runs, past_shutdown,
                   stream_max, overlay, user_callbacks, overlayVars,
                   shutdown_event, task_queue,
                   result_queue, queues_closed, task_id, n_read, task_count,
                   feeder_stop, feeder_exit, w_task, w_alarm, sd_i, exc, mon_exit,
                   shutdown_at_exit, historyVars>>

\* ------------------------------------------------------- Dispatcher._feeder
\* The feeder thread shares shutdown_event and task_queue with the other
\* participants, and publishes task_count and its stop event for the monitor.
\* Statements that touch none of them are taken with the next one that does.

\* Mutant of FeederFinally: the count is published at the end of the try body,
\* which an exception of the stream skips.
FeederFinally_CountInTry(how) ==
    /\ task_count' = (IF how = "raised" THEN task_count ELSE task_id)
    /\ feeder_stop' = TRUE
    /\ feeder_pc' = "done"
    /\ feeder_exit' = how

\* lines 191-193: the finally clause publishes the count and sets the stop
\* event; how is what ended the loop.
FeederFinally(how) ==
    /\ task_count' = task_id
    /\ feeder_stop' = TRUE
    /\ feeder_pc' = "done"
    /\ feeder_exit' = how

\* lines 175-179: the generator yields its next item; the loop is left when the
\* shutdown event is set, else the put loop is entered.
FeederYield ==
    /\ feeder_pc = "iter"
    /\ n_read < stream_max
    /\ n_read' = n_read + 1
    /\ IF shutdown_event
         THEN FeederFinally("shutdown")
         ELSE /\ feeder_pc' = "put"
              /\ UNCHANGED <<task_count, feeder_stop, feeder_exit>>
    /\ UNCHANGED <<configVars, overlayVars, shutdown_event, handlers, task_queue, result_queue,
                   queues_closed, task_id, workerVars,
                   run_pc, sd_i, monitorVars, exc, mon_exit, shutdown_at_exit, historyVars>>

\* What ends the input stream: StopIteration, or an exception of the generator.
StreamEnds == {"exhausted", "raised"}

\* line 175 / 188-190: the generator is exhausted, or raises and the error is
\* printed; both lead to the finally clause.
FeederStreamEnds ==
    /\ feeder_pc = "iter"
    /\ \E how \in StreamEnds : FeederFinally(how)
    /\ UNCHANGED <<configVars, overlayVars, shutdown_event, handlers, task_queue, result_queue,
                   queues_closed, task_id, n_read, workerVars,
                   run_pc, sd_i, monitorVars, exc, mon_exit, shutdown_at_exit, historyVars>>

\* lines 179, 185-186: the condition of the put loop after a Full; when the
\* shutdown event is set the loop ends and line 185 breaks.
FeederWhile ==
    /\ feeder_pc = "while"
    /\ IF shutdown_event
         THEN FeederFinally("shutdown")
         ELSE /\ feeder_pc' = "put"
              /\ UNCHANGED <<task_count, feeder_stop, feeder_exit>>
    /\ UNCHANGED <<configVars, overlayVars, shutdown_event, handlers, task_queue, result_queue,
                   queues_closed, task_id, n_read, workerVars,
                   run_pc, sd_i, monitorVars, exc, mon_exit, shutdown_at_exit, historyVars>>

\* Mutant of HasRoom: the queue is created without maxsize.
HasRoom_Unbounded(q) == TRUE

\* line 87: the task queue holds at most queue_size items; a put finds room, or
\* raises Full when its timeout ends. A maxsize of 0 or less makes the queue
\* unbounded.
HasRoom(q) == queue_size <= 0 \/ Len(q) < queue_size

\* lines 180-184: put with a timeout; Full sends the loop round again; a closed
\* queue raises ValueError, which line 188 catches.
FeederPut ==
    /\ feeder_pc = "put"
    /\ IF queues_closed
         THEN /\ FeederFinally("closed")
              /\ UNCHANGED <<task_queue, n_put, put_log>>
         ELSE IF HasRoom(task_queue)
         THEN /\ task_queue' = Append(task_queue, task_id)
              /\ n_put' = n_put + 1
              /\ put_log' = Append(put_log, task_id)
              /\ feeder_pc' = "chk2"
              /\ UNCHANGED <<task_count, feeder_stop, feeder_exit>>
         ELSE /\ feeder_pc' = "while"
              /\ UNCHANGED <<task_queue, n_put, put_log, task_count, feeder_stop,
                             feeder_exit>>
    /\ UNCHANGED <<configVars, overlayVars, shutdown_event, handlers, result_queue,
                   queues_closed, task_id, n_read, workerVars,
                   run_pc, sd_i, monitorVars, exc, mon_exit, shutdown_at_exit, delivered, setup_fail_cb,
                   on_exit_calls, emitted, dequeued>>

\* Mutant of NextTaskId: the id is not advanced.
NextTaskId_Same(t) == t

\* line 187: the id of the next task.
NextTaskId(t) == t + 1

\* lines 185-187: break when the shutdown event is set, else count the task.
FeederCheckAfterPut ==
    /\ feeder_pc = "chk2"
    /\ IF shutdown_event
         THEN /\ FeederFinally("shutdown")
              /\ UNCHANGED task_id
         ELSE /\ feeder_pc' = "iter"
              /\ task_id' = NextTaskId(task_id)
              /\ UNCHANGED <<task_count, feeder_stop, feeder_exit>>
    /\ UNCHANGED <<configVars, overlayVars, shutdown_event, handlers, task_queue, result_queue,
                   queues_closed, n_read, workerVars,
                   run_pc, sd_i, monitorVars, exc, mon_exit, shutdown_at_exit, historyVars>>

\* ------------------------------------------------------ worker._worker_main
\* Mutant of AfterSetupFailed: the return of line 47 is missing.
AfterSetupFailed_NoReturn == "loop"

\* line 47: after SetupFailed is put the worker returns; the process exits.
AfterSetupFailed == "setup_failed"

\* lines 42-50: setup returns, or raises: SetupFailed is put and the process exits.
WorkerSetup(w) ==
    /\ w_pc[w] = "setup"
    /\ \E ok \in BOOLEAN :
         IF ok
           THEN /\ w_pc' = [w_pc EXCEPT ![w] = "loop"]
                /\ UNCHANGED result_queue
           ELSE /\ w_pc' = [w_pc EXCEPT ![w] = AfterSetupFailed]
                /\ result_queue' = Append(result_queue, Msg("SetupFailed", NoTask, w))
    /\ UNCHANGED <<configVars, overlayVars, shutdown_event, handlers, task_queue, queues_closed,
                   feederVars, w_task, w_alarm, run_pc, sd_i,
                   monitorVars, exc, mon_exit, shutdown_at_exit, historyVars>>

\* lines 55-56: the top of the main loop.
WorkerCheckShutdown(w) ==
    /\ w_pc[w] = "loop"
    /\ w_pc' = [w_pc EXCEPT ![w] = IF shutdown_event THEN "cleanup" ELSE "get"]
    /\ UNCHANGED <<configVars, overlayVars, shutdown_event, handlers, task_queue, result_queue,
                   queues_closed, feederVars, w_task, w_alarm, run_pc,
                   sd_i, monitorVars, exc, mon_exit, shutdown_at_exit, historyVars>>

\* lines 70-72: the alarm is armed only when a timeout is configured.
ArmsAlarm == task_timeout # "None"

\* int() of line 71 for the rational num/den, den > 0: the fraction is dropped,
\* towards zero.
int(num, den) == IF num >= 0 THEN num \div den ELSE -((-num) \div den)

max(a, b) == IF a >= b THEN a ELSE b

\* line 71: alarm_seconds = max(1, int(task_timeout + 0.5)), the timeout given in
\* tenths of a second.
alarm_seconds(tenths) == max(1, int(tenths + 5, 10))

\* Mutant of AfterGet: the item is read but left on the queue.
AfterGet_Peek(q) == q

\* line 60 (and line 262): get takes the item at the head off the queue.
AfterGet(q) == Tail(q)

\* lines 59-72: get with a timeout; Empty goes back to the top of the loop, the
\* sentinel leaves it, a task is unpacked and the alarm armed.
WorkerGet(w) ==
    /\ w_pc[w] = "get"
    /\ IF task_queue = <<>>
         THEN /\ w_pc' = [w_pc EXCEPT ![w] = "loop"]
              /\ UNCHANGED <<task_queue, w_task, w_alarm, dequeued>>
         ELSE /\ task_queue' = AfterGet(task_queue)
              /\ IF Head(task_queue) = STOP
                   THEN /\ w_pc' = [w_pc EXCEPT ![w] = "cleanup"]
                        /\ UNCHANGED <<w_task, w_alarm, dequeued>>
                   ELSE /\ w_pc' = [w_pc EXCEPT ![w] = "started"]
                        /\ w_task' = [w_task EXCEPT ![w] = Head(task_queue)]
                        /\ w_alarm' = [w_alarm EXCEPT ![w] =
                                         IF ArmsAlarm THEN alarm_seconds(timeout_tenths)
                                                      ELSE @]
                        /\ dequeued' = [dequeued EXCEPT ![Head(task_queue)] = @ + 1]
    /\ UNCHANGED <<configVars, overlayVars, shutdown_event, handlers, result_queue, queues_closed,
                   feederVars, run_pc, sd_i, monitorVars, exc, mon_exit,
                   shutdown_at_exit, delivered, setup_fail_cb, on_exit_calls, emitted,
                   n_put, put_log>>

\* line 74: TaskStarted is put; process is entered.
WorkerPutStarted(w) ==
    /\ w_pc[w] = "started"
    /\ result_queue' = Append(result_queue, Msg("TaskStarted", w_task[w], w))
    /\ w_pc' = [w_pc EXCEPT ![w] = "process"]
    /\ UNCHANGED <<configVars, overlayVars, shutdown_event, handlers, task_queue, queues_closed,
                   feederVars, w_task, w_alarm, run_pc, sd_i,
                   monitorVars, exc, mon_exit, shutdown_at_exit, historyVars>>

\* What process can do: return, or raise an exception that is no TimeoutError.
Outcomes == {"returned", "exc"}

\* The statements of lines 69-80, the body of the try: a TimeoutError raised
\* here is caught by line 82.
TryBodyPcs == {"started", "process", "returned"}

\* The except clauses of lines 82-91 before their signal.alarm(0): an exception
\* raised here is caught by nothing.
HandlerPcs == {"exc", "texc"}

\* The message each way out of the try statement puts (lines 80, 85, 91).
TerminalFor(pc) ==
    CASE pc = "returned" -> "TaskSuccess"
      [] pc = "texc" -> "TaskTimeout"
      [] pc = "exc" -> "TaskError"

\* line 75: process ends; control is at line 77, or in the except clause that
\* matches, before its signal.alarm(0).
WorkerProcess(w) ==
    /\ w_pc[w] = "process"
    /\ \E o \in Outcomes : w_pc' = [w_pc EXCEPT ![w] = o]
    /\ UNCHANGED <<configVars, overlayVars, shutdown_event, handlers, task_queue, result_queue,
                   queues_closed, feederVars, w_task, w_alarm, run_pc,
                   sd_i, monitorVars, exc, mon_exit, shutdown_at_exit, historyVars>>

\* lines 27-28: the pending SIGALRM is delivered and _timeout_handler raises
\* TimeoutError at the statement the worker is executing.
AlarmFires(w) ==
    /\ w_alarm[w] > 0
    /\ w_pc[w] \in TryBodyPcs \cup HandlerPcs
    /\ w_alarm' = [w_alarm EXCEPT ![w] = 0]
    /\ w_pc' = [w_pc EXCEPT ![w] = IF w_pc[w] \in TryBodyPcs THEN "texc" ELSE "crashed"]
    /\ UNCHANGED <<configVars, overlayVars, shutdown_event, handlers, task_queue, result_queue,
                   queues_closed, feederVars, w_task, run_pc,
                   sd_i, monitorVars, exc, mon_exit, shutdown_at_exit, historyVars>>

\* Mutant of TerminalMessages: a result that arrives after the shutdown event
\* was set is dropped.
TerminalMessages_DropOnShutdown(w) ==
    IF shutdown_event THEN <<>> ELSE <<Msg(TerminalFor(w_pc[w]), w_task[w], w)>>

\* Mutant of TerminalMessages: TaskStarted is reported again after the result.
TerminalMessages_StartedLast(w) ==
    <<Msg(TerminalFor(w_pc[w]), w_task[w], w), Msg("TaskStarted", w_task[w], w)>>

\* lines 80, 85, 91: what a worker puts when it leaves the try statement.
TerminalMessages(w) == <<Msg(TerminalFor(w_pc[w]), w_task[w], w)>>

\* Mutant of Disarmed: the except clause of line 87 does not call signal.alarm.
Disarmed_NotOnError(pc, pending) == IF pc = "exc" THEN pending ELSE 0

\* lines 77-78, 83-84, 88-89: signal.alarm(0) on each way out of the try
\* statement (task_timeout is not None whenever an alarm is pending).
Disarmed(pc, pending) == 0

\* lines 77-80, 83-85, 88-91: the alarm is disarmed and the terminal message
\* put; the worker is back at the top of its loop.
WorkerPutTerminal(w) ==
    /\ w_pc[w] \in {"returned", "exc", "texc"}
    /\ w_alarm' = [w_alarm EXCEPT ![w] = Disarmed(w_pc[w], @)]
    /\ result_queue' = result_queue \o TerminalMessages(w)
    /\ emitted' = [emitted EXCEPT ![w_task[w]] = @ + 1]
    /\ w_pc' = [w_pc EXCEPT ![w] = "loop"]
    /\ w_task' = [w_task EXCEPT ![w] = NoTask]
    /\ UNCHANGED <<configVars, overlayVars, shutdown_event, handlers, task_queue, queues_closed,
                   feederVars, run_pc, sd_i, monitorVars, exc, mon_exit,
                   shutdown_at_exit, delivered, setup_fail_cb, on_exit_calls, dequeued,
                   n_put, put_log>>

\* lines 94-98: cleanup returns or raises; the process exits.
WorkerCleanup(w) ==
    /\ w_pc[w] = "cleanup"
    /\ w_pc' = [w_pc EXCEPT ![w] = "exited"]
    /\ \E ok \in BOOLEAN :
         result_queue' = IF ok THEN result_queue
                         ELSE Append(result_queue, Msg("CleanupFailed", NoTask, w))
    /\ UNCHANGED <<configVars, overlayVars, shutdown_event, handlers, task_queue, queues_closed,
                   feederVars, w_task, w_alarm, run_pc, sd_i,
                   monitorVars, exc, mon_exit, shutdown_at_exit, historyVars>>

\* ------------------------------------------------------ Dispatcher._monitor
\* Mutant of LeaveMonitor: the shutdown sequence follows _monitor without a
\* finally, so an exception of _monitor leaves run at once.
LeaveMonitor_NoFinally(how) ==
    /\ run_pc' = IF how \in {"callback", "fatal"} THEN "raised" ELSE "restore"
    /\ mon_exit' = how
    /\ shutdown_at_exit' = shutdown_event
    /\ results_received' = 0
    /\ active_workers' = 0

\* _monitor returns or raises into the finally block of run (line 150); its
\* locals are gone.
LeaveMonitor(how) ==
    /\ run_pc' = "restore"
    /\ mon_exit' = how
    /\ shutdown_at_exit' = shutdown_event
    /\ results_received' = 0
    /\ active_workers' = 0

\* Mutant of MonitorCheckShutdown: the loop does not look at the shutdown event.
MonitorCheckShutdown_Ignored ==
    /\ run_pc = "mon_shutdown_chk"
    /\ run_pc' = "mon_done_chk"
    /\ UNCHANGED <<configVars, overlayVars, shutdown_event, handlers, task_queue, result_queue,
                   queues_closed, feederVars, workerVars, sd_i, exc, historyVars,
                   mon_exit, shutdown_at_exit, monitorVars>>

\* lines 255-256: leave the loop when the shutdown event is set.
MonitorCheckShutdown ==
    /\ run_pc = "mon_shutdown_chk"
    /\ IF shutdown_event
         THEN LeaveMonitor("shutdown")
         ELSE /\ run_pc' = "mon_done_chk"
              /\ UNCHANGED <<mon_exit, shutdown_at_exit, monitorVars>>
    /\ UNCHANGED <<configVars, overlayVars, shutdown_event, handlers, task_queue, result_queue,
                   queues_closed, feederVars, workerVars, sd_i, exc, historyVars>>

\* Mutant of MonitorDone: the count of results is not compared.
MonitorDone_NoCount == feeder_stop

\* line 258: the condition of normal completion.
MonitorDone == feeder_stop /\ results_received >= task_count

\* lines 258-259: leave the loop when the feeder is done and every task counted.
MonitorCheckDone ==
    /\ run_pc = "mon_done_chk"
    /\ MonitorDone
    /\ LeaveMonitor("normal")
    /\ UNCHANGED <<configVars, overlayVars, shutdown_event, handlers, task_queue, result_queue,
                   queues_closed, feederVars, workerVars, sd_i, exc, historyVars>>

\* lines 258-264: not done, and get with a timeout raised Empty. (Only the
\* monitor reads what line 258 reads, so the get is taken with the check.)
MonitorGetEmpty ==
    /\ run_pc = "mon_done_chk"
    /\ ~MonitorDone
    /\ result_queue = <<>>
    /\ run_pc' = "mon_shutdown_chk"
    /\ UNCHANGED <<configVars, overlayVars, shutdown_event, handlers, task_queue, result_queue,
                   queues_closed, feederVars, workerVars, sd_i,
                   monitorVars, exc, mon_exit, shutdown_at_exit, historyVars>>

\* The callback dispatched for a message (lines 267, 271, 276, 281, 286).
CallbackFor(type) ==
    CASE type = "TaskStarted" -> "on_task_start"
      [] type = "TaskSuccess" -> "on_success"
      [] type = "TaskError" -> "on_error"
      [] type = "TaskTimeout" -> "on_timeout"
      [] type = "SetupFailed" -> "on_setup_fail"

\* Mutant of CountsAsResult: every message counts toward results_received.
CountsAsResult_All(type) == TRUE

\* lines 272, 277, 282: the terminal messages are counted, TaskStarted is not.
CountsAsResult(type) == type \in Terminal

\* Mutant of AllWorkersFailed: the run is given up with one worker left.
AllWorkersFailed_OneLeft(active) == active <= 1

\* lines 287-289: the last active worker failed its setup.
AllWorkersFailed(active) == active = 0

\* lines 265-292: the message is dispatched to its callback and counted. A
\* callback the caller supplied may raise, which leaves _monitor at once; so
\* does the RuntimeError of line 289.
Dispatch(result, raises) ==
    /\ IF result.type \in Terminal \cup {"TaskStarted"}
         THEN delivered' = [delivered EXCEPT ![result.task_id] =
                               Append(@, CallbackFor(result.type))]
         ELSE UNCHANGED delivered
    /\ IF result.type = "SetupFailed"
         THEN setup_fail_cb' = [setup_fail_cb EXCEPT ![result.worker_id] = @ + 1]
         ELSE UNCHANGED setup_fail_cb
    /\ IF raises /\ result.type # "CleanupFailed"
             /\ CallbackFor(result.type) \in user_callbacks
         THEN /\ LeaveMonitor("callback")
              /\ exc' = "callback"
         ELSE IF result.type = "SetupFailed" /\ AllWorkersFailed(active_workers - 1)
         THEN /\ LeaveMonitor("fatal")
              /\ exc' = "fatal"
         ELSE /\ results_received' =
                   IF CountsAsResult(result.type) THEN results_received + 1
                   ELSE results_received
              /\ active_workers' =
                   IF result.type = "SetupFailed" THEN active_workers - 1
                   ELSE active_workers
              /\ run_pc' = "mon_shutdown_chk"
              /\ UNCHANGED <<exc, mon_exit, shutdown_at_exit>>

\* lines 258-292: not done; a message is taken and dispatched.
MonitorDispatch ==
    /\ ~overlay
    /\ run_pc = "mon_done_chk"
    /\ ~MonitorDone
    /\ result_queue # <<>>
    /\ result_queue' = AfterGet(result_queue)
    /\ \E raises \in BOOLEAN : Dispatch(Head(result_queue), raises)
    /\ UNCHANGED <<configVars, overlayVars, shutdown_event, handlers, task_queue,
                   queues_closed, feederVars, workerVars, sd_i,
                   on_exit_calls, emitted, dequeued, n_put, put_log>>

\* ------------------------------------------------- the finally block of run
\* lines 152-154: the original signal handlers are put back.
RestoreHandlers ==
    /\ run_pc = "restore"
    /\ handlers' = (IF is_main_thread THEN "default" ELSE handlers)
    /\ run_pc' = "on_exit"
    /\ UNCHANGED <<configVars, overlayVars, shutdown_event, task_queue, result_queue,
                   queues_closed, feederVars, workerVars, sd_i,
                   monitorVars, exc, mon_exit, shutdown_at_exit, historyVars>>

\* lines 156-157: on_exit is called; an exception it raises leaves the finally
\* block, and run, at once.
CallOnExit(raises) ==
    /\ on_exit_calls' = on_exit_calls + 1
    /\ IF raises /\ "on_exit" \in user_callbacks
         THEN /\ run_pc' = "raised"
              /\ exc' = "on_exit"
         ELSE /\ run_pc' = "set_shutdown"
              /\ UNCHANGED exc

OnExit ==
    /\ ~overlay
    /\ run_pc = "on_exit"
    /\ \E raises \in BOOLEAN : CallOnExit(raises)
    /\ UNCHANGED <<configVars, overlayVars, shutdown_event, handlers, task_queue, result_queue,
                   queues_closed, feederVars, workerVars, sd_i,
                   monitorVars, mon_exit, shutdown_at_exit, delivered, setup_fail_cb, emitted,
                   dequeued, n_put, put_log>>

\* lines 160-161: the shutdown event and the feeder's stop event are set.
SetShutdown ==
    /\ run_pc = "set_shutdown"
    /\ shutdown_event' = TRUE
    /\ feeder_stop' = TRUE
    /\ run_pc' = "sentinels"
    /\ sd_i' = 1
    /\ UNCHANGED <<configVars, overlayVars, handlers, task_queue, result_queue,
                   queues_closed, feeder_pc, task_id, n_read, task_count, feeder_exit,
                   workerVars,
                   monitorVars, exc, mon_exit, shutdown_at_exit, historyVars>>

\* Mutant of NextStage: each loop of _shutdown_workers ends after its first
\* element.
NextStage_FirstOnly(stage, after) ==
    /\ sd_i' = 1
    /\ run_pc' = after

\* The loop of _shutdown_workers at run_pc moves to its next element, or to the
\* stage after it.
NextStage(stage, after) ==
    IF sd_i < NumWorkers
      THEN /\ sd_i' = sd_i + 1
           /\ run_pc' = stage
      ELSE /\ sd_i' = 1
           /\ run_pc' = after

\* lines 206-210: one sentinel per gpu; Full is passed over.
SendSentinel ==
    /\ run_pc = "sentinels"
    /\ task_queue' = IF HasRoom(task_queue) THEN Append(task_queue, STOP)
                     ELSE task_queue
    /\ NextStage("sentinels", "join")
    /\ UNCHANGED <<configVars, overlayVars, shutdown_event, handlers, result_queue,
                   queues_closed, feederVars, workerVars,
                   monitorVars, exc, mon_exit, shutdown_at_exit, historyVars>>

\* lines 213-214: each join with a timeout returns whether or not the process
\* ended, and changes nothing: the loop is one step.
JoinWorkers ==
    /\ run_pc = "join"
    /\ run_pc' = "terminate"
    /\ sd_i' = 1
    /\ UNCHANGED <<configVars, overlayVars, shutdown_event, handlers, task_queue, result_queue,
                   queues_closed, feederVars, workerVars,
                   monitorVars, exc, mon_exit, shutdown_at_exit, historyVars>>

\* lines 217-220: a process still alive is sent SIGTERM, which ends it unless
\* the worker's code handles or ignores the signal.
TerminateWorker ==
    /\ run_pc = "terminate"
    /\ \E dies \in BOOLEAN :
         w_pc' = IF is_alive(gpu_ids[sd_i]) /\ dies
                   THEN [w_pc EXCEPT ![gpu_ids[sd_i]] = "terminated"]
                   ELSE w_pc
    /\ NextStage("terminate", "kill")
    /\ UNCHANGED <<configVars, overlayVars, shutdown_event, handlers, task_queue, result_queue,
                   queues_closed, feederVars, w_task, w_alarm,
                   monitorVars, exc, mon_exit, shutdown_at_exit, historyVars>>

\* Mutant of KillWorker: the kill stage is missing.
KillWorker_NoKill ==
    /\ run_pc = "kill"
    /\ NextStage("kill", "cleanup")
    /\ UNCHANGED <<configVars, overlayVars, shutdown_event, handlers, task_queue, result_queue,
                   queues_closed, feederVars, workerVars,
                   monitorVars, exc, mon_exit, shutdown_at_exit, historyVars>>

\* lines 223-226: a process still alive is sent SIGKILL.
KillWorker ==
    /\ run_pc = "kill"
    /\ w_pc' = IF is_alive(gpu_ids[sd_i])
                 THEN [w_pc EXCEPT ![gpu_ids[sd_i]] = "killed"]
                 ELSE w_pc
    /\ NextStage("kill", "cleanup")
    /\ UNCHANGED <<configVars, overlayVars, shutdown_event, handlers, task_queue, result_queue,
                   queues_closed, feederVars, w_task, w_alarm,
                   monitorVars, exc, mon_exit, shutdown_at_exit, historyVars>>

\* lines 228-235, then the end of run: both queues are drained and closed; run
\* returns, or raises the exception _monitor left with.
CleanupQueues ==
    /\ run_pc = "cleanup"
    /\ task_queue' = <<>>
    /\ result_queue' = <<>>
    /\ queues_closed' = TRUE
    /\ run_pc' = IF exc = "none" THEN "returned" ELSE "raised"
    /\ UNCHANGED <<configVars, overlayVars, shutdown_event, handlers,
                   feederVars, workerVars, sd_i,
                   monitorVars, exc, mon_exit, shutdown_at_exit, historyVars>>

\* ----------------------------------------------------------- the environment
\* lines 93-94: SIGINT or SIGTERM arrives while run's handler is installed.
SignalHandler ==
    /\ handlers = "handler"
    /\ ~shutdown_event
    /\ shutdown_event' = TRUE
    /\ UNCHANGED <<configVars, overlayVars, handlers, task_queue, result_queue,
                   queues_closed, feederVars, workerVars, run_pc, sd_i,
                   monitorVars, exc, mon_exit, shutdown_at_exit, historyVars>>

\* lines 69-72: shutdown() called from another thread or from a callback; it
\* does nothing before the first run has created the event.
Shutdown ==
    /\ created
    /\ ~shutdown_event
    /\ shutdown_event' = TRUE
    /\ UNCHANGED <<configVars, overlayVars, handlers, task_queue, result_queue,
                   queues_closed, feederVars, workerVars, run_pc, sd_i,
                   monitorVars, exc, mon_exit, shutdown_at_exit, historyVars>>

\* lines 152-154 put back the handlers run found, by default Python's own:
\* from then on a SIGINT raises KeyboardInterrupt at the statement the main
\* thread is executing, inside the finally block, and leaves run at once.
SigintInFinally ==
    /\ is_main_thread
    /\ handlers = "default"
    /\ run_pc \in FinallyPcs
    /\ run_pc' = "raised"
    /\ exc' = "KeyboardInterrupt"
    /\ UNCHANGED <<configVars, overlayVars, shutdown_event, handlers, task_queue, result_queue,
                   queues_closed, feederVars, workerVars, sd_i,
                   monitorVars, mon_exit, shutdown_at_exit, historyVars>>

\* lines 152-154: with the default disposition back, a SIGTERM ends the
\* controller process, and with it the feeder thread; the workers live on.
SigtermInFinally ==
    /\ handlers = "default"
    /\ run_pc \in FinallyPcs
    /\ run_pc' = "process_terminated"
    /\ feeder_pc' = "dead"
    /\ UNCHANGED <<configVars, overlayVars, shutdown_event, handlers, task_queue, result_queue,
                   queues_closed, task_id, n_read, task_count, feeder_stop, feeder_exit,
                   workerVars, sd_i, monitorVars, exc, mon_exit, shutdown_at_exit,
                   historyVars>>

\* ---------------------------------------------------------------------- Next
Feeder ==
    \/ FeederYield
    \/ FeederStreamEnds
    \/ FeederWhile
    \/ FeederPut
    \/ FeederCheckAfterPut

Worker(w) ==
    \/ WorkerSetup(w)
    \/ WorkerCheckShutdown(w)
    \/ WorkerGet(w)
    \/ WorkerPutStarted(w)
    \/ WorkerProcess(w)
    \/ AlarmFires(w)
    \/ WorkerPutTerminal(w)
    \/ WorkerCleanup(w)

Monitor ==
    \/ MonitorCheckShutdown
    \/ MonitorCheckDone
    \/ MonitorGetEmpty
    \/ MonitorDispatch

Finally ==
    \/ RestoreHandlers
    \/ OnExit
    \/ SetShutdown
    \/ SendSentinel
    \/ JoinWorkers
    \/ TerminateWorker
    \/ KillWorker
    \/ CleanupQueues

Environment ==
    \/ SignalHandler
    \/ Shutdown

Next ==
    \/ RunStart
    \/ Feeder
    \/ \E w \in AllGpus : Worker(w)
    \/ Monitor
    \/ Finally
    \/ Environment

Spec == Init /\ [][Next]_vars

SpecLong == InitLong /\ [][Next]_vars

\* The thread that called run always goes on: every wait of _monitor and of the
\* shutdown sequence has a timeout (get 0.1 s, put 0.5 s, join 3 s, 1 s, 0.5 s),
\* and a callback is taken to come back. The feeder thread goes on likewise: its
\* put has a timeout and the input stream is taken to answer.
SpecShutdown ==
    /\ InitLive
    /\ [][Next]_vars
    /\ WF_vars(Monitor \/ Finally)
    /\ WF_vars(Feeder)

\* As SpecShutdown, and every worker process that can take a step takes one: a
\* call of setup, process or cleanup ends, and a pending alarm may go off.
SpecLive ==
    /\ InitLive
    /\ [][Next]_vars
    /\ WF_vars(Monitor \/ Finally)
    /\ WF_vars(Feeder)
    /\ \A w \in AllGpus : WF_vars(Worker(w))

\* Construction included, from arguments that need not be valid.
NextConfig ==
    \/ Construct
    \/ Next

SpecConfig == InitConfig /\ [][NextConfig]_vars

\* The runs in which signals also arrive after run has put the original
\* handlers back.
NextInterrupt ==
    \/ Next
    \/ SigintInFinally
    \/ SigtermInFinally

SpecInterrupt == Init /\ [][NextInterrupt]_vars

\* ------------------------------------------- the start of run, step by step
\* A constructed Dispatcher whose run is called on the main thread or on
\* another one.
InitFrame ==
    /\ worker_cls = "BaseWorker"
    /\ is_main_thread \in BOOLEAN
    /\ overlay = FALSE
    /\ user_callbacks = Callbacks
    /\ OneSecond
    /\ gpu_ids = <<0>>
    /\ stream_max = MaxTasksLive
    /\ queue_size \in 1..MaxQueue
    /\ run_pc = "idle"
    /\ Fresh

\* lines 87-102: the queues and the event are created and, on the main thread,
\* the handlers installed; the workers are not spawned yet.
RunInstall ==
    /\ run_pc = "idle"
    /\ created' = TRUE
    /\ \E tt \in {"None", "set"} : task_timeout' = tt
    /\ handlers' = InstalledHandlers
    /\ run_pc' = "spawn"
    /\ UNCHANGED <<worker_cls, is_main_thread, gpu_ids, queue_size, timeout_tenths,
                   past_runs, past_shutdown,
                   stream_max, overlay, user_callbacks, overlayVars,
                   shutdown_event, task_queue, result_queue, queues_closed,
                   feederVars, workerVars, sd_i, monitorVars, exc, mon_exit,
                   shutdown_at_exit, historyVars>>

\* lines 104-133: one worker object is made and one process started per gpu,
\* then the feeder thread is started and the try statement entered. The
\* constructor of the worker class, or the start of a process (which pickles
\* the worker and setup_kwargs), can raise: the exception leaves run from
\* outside the try statement, with the first k processes running.
RunSpawn ==
    /\ run_pc = "spawn"
    /\ \E k \in 0..NumWorkers :
         /\ w_pc' = [w \in AllGpus |->
                       IF \E i \in 1..k : gpu_ids[i] = w THEN "setup" ELSE "not_spawned"]
         /\ IF k = NumWorkers
              THEN /\ feeder_pc' = "iter"
                   /\ active_workers' = NumWorkers
                   /\ results_received' = 0
                   /\ run_pc' = "mon_shutdown_chk"
                   /\ UNCHANGED exc
              ELSE /\ run_pc' = "raised"
                   /\ exc' = "spawn"
                   /\ UNCHANGED <<feeder_pc, monitorVars>>
    /\ UNCHANGED <<configVars, overlayVars, shutdown_event, handlers, task_queue, result_queue,
                   queues_closed, task_id, n_read, task_count, feeder_stop,
                   feeder_exit, w_task, w_alarm, sd_i, mon_exit, shutdown_at_exit,
                   historyVars>>

NextFrame ==
    \/ RunInstall
    \/ RunSpawn
    \/ Next

SpecFrame == InitFrame /\ [][NextFrame]_vars

\* ------------------------------------------- _cleanup_queues, step by step
\* lines 230-231 and 195-201: both queues are drained by get_nowait until
\* Empty; they are still open.
DrainQueues ==
    /\ run_pc = "cleanup"
    /\ task_queue' = <<>>
    /\ result_queue' = <<>>
    /\ run_pc' = "close"
    /\ UNCHANGED <<configVars, overlayVars, shutdown_event, handlers, queues_closed,
                   feederVars, workerVars, sd_i,
                   monitorVars, exc, mon_exit, shutdown_at_exit, historyVars>>

\* lines 232-235, then the end of run: both queues are closed with whatever
\* they hold; run returns, or raises the exception _monitor left with.
CloseQueues ==
    /\ run_pc = "close"
    /\ queues_closed' = TRUE
    /\ run_pc' = IF exc = "none" THEN "returned" ELSE "raised"
    /\ UNCHANGED <<configVars, overlayVars, shutdown_event, handlers, task_queue,
                   result_queue, feederVars, workerVars, sd_i,
                   monitorVars, exc, mon_exit, shutdown_at_exit, historyVars>>

\* The runs in which the other threads and processes can take steps between
\* the drain and the close.
NextCleanup ==
    \/ RunStart
    \/ Feeder
    \/ \E w \in AllGpus : Worker(w)
    \/ Monitor
    \/ RestoreHandlers
    \/ OnExit
    \/ SetShutdown
    \/ SendSentinel
    \/ JoinWorkers
    \/ TerminateWorker
    \/ KillWorker
    \/ DrainQueues
    \/ CloseQueues
    \/ Environment

SpecCleanup == InitLive /\ [][NextCleanup]_vars

\* ------------------------------------------------- runs with any task_timeout
\* One worker, a one-slot queue, and a task_timeout of any number of tenths of
\* a second.
InitAlarm ==
    /\ worker_cls = "BaseWorker"
    /\ is_main_thread = TRUE
    /\ overlay = FALSE
    /\ user_callbacks = Callbacks
    /\ timeout_tenths \in 0..MaxTenths
    /\ gpu_ids = <<0>>
    /\ stream_max = MaxTasksAlarm
    /\ queue_size = 1
    /\ run_pc = "idle"
    /\ Fresh

SpecAlarm == InitAlarm /\ [][Next]_vars

\* ------------------------------------ process raises a TimeoutError of its own
\* line 75: process raises TimeoutError itself (Python raises it for a timed-out
\* socket or lock, and concurrent.futures.TimeoutError and asyncio.TimeoutError
\* are the same class); the clause of line 82 catches it like the one
\* _timeout_handler raises. A pending alarm stays pending until line 84.
ProcessRaisesTimeout(w) ==
    /\ w_pc[w] = "process"
    /\ w_pc' = [w_pc EXCEPT ![w] = "texc"]
    /\ UNCHANGED <<configVars, overlayVars, shutdown_event, handlers, task_queue, result_queue,
                   queues_closed, feederVars, w_task, w_alarm, run_pc,
                   sd_i, monitorVars, exc, mon_exit, shutdown_at_exit, historyVars>>

NextTimeoutError ==
    \/ \E w \in Workers : ProcessRaisesTimeout(w)
    \/ Next

SpecTimeoutError == Init /\ [][NextTimeoutError]_vars

\* ------------------------------------------- run called again on a Dispatcher
\* Mutant of NewEvent: run keeps the event of the run before.
NewEvent_Reused(old) == old

\* line 89: self._shutdown_event = self.ctx.Event(), a new event, not set.
NewEvent(old) == FALSE

\* Mutant of NewQueue: run keeps the queue of the run before.
NewQueue_Reused(old) == old

\* lines 87-88: self.ctx.Queue(...), a new and empty queue.
NewQueue(old) == <<>>

\* lines 87-133, on a Dispatcher whose previous run has returned or raised: the
\* queues, the event, the processes, the feeder thread and every local are new
\* objects, and the records of what was delivered start again at task 0. The
\* threads and processes the run before may have left behind were handed that
\* run's queues and event as arguments (lines 111-131) and hold nothing of this
\* run; they are left out.
RunAgain ==
    /\ RunDone
    /\ past_runs < MaxReruns
    /\ past_runs' = past_runs + 1
    /\ past_shutdown' = shutdown_at_exit
    /\ task_queue' = NewQueue(task_queue)
    /\ result_queue' = NewQueue(result_queue)
    /\ queues_closed' = FALSE
    /\ shutdown_event' = NewEvent(shutdown_event)
    /\ created' = TRUE
    /\ \E tt \in {"None", "set"} : task_timeout' = tt
    /\ handlers' = InstalledHandlers
    /\ w_pc' = [w \in AllGpus |-> IF w \in Workers THEN "setup" ELSE "not_spawned"]
    /\ w_task' = [w \in AllGpus |-> NoTask]
    /\ w_alarm' = [w \in AllGpus |-> 0]
    /\ feeder_pc' = "iter"
    /\ task_id' = 0
    /\ n_read' = 0
    /\ task_count' = 0
    /\ feeder_stop' = FALSE
    /\ feeder_exit' = "none"
    /\ active_workers' = NumWorkers
    /\ results_received' = 0
    /\ sd_i' = 0
    /\ exc' = "none"
    /\ mon_exit' = "none"
    /\ shutdown_at_exit' = FALSE
    /\ delivered' = [t \in TaskIds |-> <<>>]
    /\ setup_fail_cb' = [w \in AllGpus |-> 0]
    /\ on_exit_calls' = 0
    /\ emitted' = [t \in TaskIds |-> 0]
    /\ dequeued' = [t \in TaskIds |-> 0]
    /\ n_put' = 0
    /\ put_log' = <<>>
    /\ run_pc' = "mon_shutdown_chk"
    /\ UNCHANGED <<worker_cls, is_main_thread, gpu_ids, queue_size, timeout_tenths,
                   stream_max, overlay, user_callbacks, overlayVars>>

NextRerun ==
    \/ RunAgain
    \/ Next

SpecRerun == InitLive /\ [][NextRerun]_vars

\* ------------------------------------------- ui/rich_dispatcher.py: the overlay
\* RichDispatcher.run hands Dispatcher.run its wrappers in place of the caller's
\* callbacks and calls it on a thread of its own (lines 71-87), never the main
\* thread. Each wrapper updates _stats with _lock held, releases the lock and
\* then calls the caller's callback, if one was given.

\* lines 37-50 and 66-69: a RichDispatcher whose run has reset the record; the
\* caller supplied no callback, on_success only, or every callback.
InitRich ==
    /\ worker_cls = "BaseWorker"
    /\ is_main_thread = FALSE
    /\ overlay = TRUE
    /\ user_callbacks \in {{}, {"on_success"}, Callbacks}
    /\ OneSecond
    /\ gpu_ids \in GpuLists
    /\ stream_max = (IF Len(gpu_ids) = 1 THEN MaxTasksRich ELSE MaxTasksPool)
    /\ queue_size \in 1..MaxQueue
    /\ run_pc = "idle"
    /\ Fresh

\* The message type whose dispatch invokes a callback.
TypeFor(cb) ==
    CASE cb = "on_task_start" -> "TaskStarted"
      [] cb = "on_success" -> "TaskSuccess"
      [] cb = "on_error" -> "TaskError"
      [] cb = "on_timeout" -> "TaskTimeout"
      [] cb = "on_setup_fail" -> "SetupFailed"

\* lines 147, 160, 173: the counter a terminal callback advances.
CounterOf(cb) ==
    CASE cb = "on_success" -> "completed"
      [] cb = "on_error" -> "failed"
      [] cb = "on_timeout" -> "timeouts"

\* lines 133-136, 147, 160, 173, 186, 200: the first statement a wrapper
\* executes with the lock held.
FirstUpdate(c, st) ==
    CASE c.cb = "on_task_start" ->
           IF c.worker_id \in DOMAIN st.gpu_status
             THEN [st EXCEPT !.gpu_status[c.worker_id].status = "processing"]
             ELSE st
      [] c.cb \in TerminalCallbacks -> [st EXCEPT ![CounterOf(c.cb)] = @ + 1]
      [] c.cb = "on_setup_fail" -> [st EXCEPT !.setup_failures = @ + 1]
      [] c.cb = "on_exit" -> st

\* lines 211-220: _finalize_task clears the current task and makes the worker
\* idle unless it is in error.
FinalizeTask(ws) ==
    [ws EXCEPT !.current_task = NoTask,
               !.status = IF @ # "error" THEN "idle" ELSE @]

\* lines 201-205: on exit a worker not in error is finished.
FinishWorker(ws) ==
    IF ws.status # "error"
      THEN [ws EXCEPT !.status = "finished", !.current_task = NoTask]
      ELSE ws

\* lines 137-138, 148-151, 161-164, 174-177, 187-191, 201-205: the statements
\* that follow, up to the end of the with block.
RestUpdate(c, st) ==
    CASE c.cb = "on_task_start" ->
           IF c.worker_id \in DOMAIN st.gpu_status
             THEN [st EXCEPT !.gpu_status[c.worker_id].current_task = c.task_id]
             ELSE st
      [] c.cb \in TerminalCallbacks ->
           [st EXCEPT !.total = @ + 1,
                      !.gpu_status[c.worker_id] =
                          FinalizeTask([@ EXCEPT ![CounterOf(c.cb)] = @ + 1])]
      [] c.cb = "on_setup_fail" ->
           IF c.worker_id \in DOMAIN st.gpu_status
             THEN [st EXCEPT !.gpu_status[c.worker_id] =
                                 [@ EXCEPT !.status = "error", !.current_task = NoTask]]
             ELSE st
      [] c.cb = "on_exit" ->
           [st EXCEPT !.gpu_status = [w \in DOMAIN @ |-> FinishWorker(@[w])]]

\* lines 134-135, 139, 152, 165, 178, 192, 206: the wrapper calls the caller's
\* callback when one was given; the task-start wrapper returns before that for
\* a worker the record does not know.
Forwards(c) ==
    /\ c.cb \in user_callbacks
    /\ ~(c.cb = "on_task_start" /\ c.worker_id \notin DOMAIN stats.gpu_status)

\* dispatcher.py lines 258-286: not done; a message is taken and its callback,
\* a wrapper, is called. CleanupFailed has no callback and is only printed.
MonitorCallWrapper ==
    /\ overlay
    /\ run_pc = "mon_done_chk"
    /\ ~MonitorDone
    /\ result_queue # <<>>
    /\ result_queue' = AfterGet(result_queue)
    /\ LET result == Head(result_queue) IN
         IF result.type = "CleanupFailed"
           THEN /\ Dispatch(result, FALSE)
                /\ UNCHANGED overlayVars
           ELSE /\ cb_call' = Call(CallbackFor(result.type), result.task_id,
                                   result.worker_id)
                /\ calls' = Append(calls, cb_call')
                /\ run_pc' = "wrap_lock"
                /\ UNCHANGED <<stats, lock, snapshot, forwarded, updated, monitorVars,
                               exc, mon_exit, shutdown_at_exit, delivered,
                               setup_fail_cb>>
    /\ UNCHANGED <<configVars, shutdown_event, handlers, task_queue,
                   queues_closed, feederVars, workerVars, sd_i,
                   on_exit_calls, emitted, dequeued, n_put, put_log>>

\* dispatcher.py lines 156-157: on_exit, the exit wrapper, is called.
ExitCallWrapper ==
    /\ overlay
    /\ run_pc = "on_exit"
    /\ cb_call' = Call("on_exit", NoTask, NoTask)
    /\ calls' = Append(calls, cb_call')
    /\ run_pc' = "wrap_lock"
    /\ UNCHANGED <<configVars, stats, lock, snapshot, forwarded, updated,
                   shutdown_event, handlers, task_queue, result_queue,
                   queues_closed, feederVars, workerVars, sd_i,
                   monitorVars, exc, mon_exit, shutdown_at_exit, historyVars>>

\* Mutant of LockFree: the lock is not looked at.
LockFree_Ignored == TRUE

\* `with self._lock` is entered only when no other thread holds the lock.
LockFree == ~lock

\* lines 132, 146, 159, 172, 185, 199: the wrapper takes the lock and executes
\* its first statement.
WrapperLock ==
    /\ run_pc = "wrap_lock"
    /\ LockFree
    /\ lock' = TRUE
    /\ stats' = FirstUpdate(cb_call, stats)
    /\ run_pc' = "wrap_locked"
    /\ UNCHANGED <<configVars, cb_call, snapshot, calls, forwarded, updated,
                   shutdown_event, handlers, task_queue, result_queue,
                   queues_closed, feederVars, workerVars, sd_i,
                   monitorVars, exc, mon_exit, shutdown_at_exit, historyVars>>

\* The wrapper executes the rest of its with block and releases the lock.
WrapperUnlock ==
    /\ run_pc = "wrap_locked"
    /\ stats' = RestUpdate(cb_call, stats)
    /\ lock' = FALSE
    /\ updated' = updated + 1
    /\ run_pc' = "wrap_forward"
    /\ UNCHANGED <<configVars, cb_call, snapshot, calls, forwarded,
                   shutdown_event, handlers, task_queue, result_queue,
                   queues_closed, feederVars, workerVars, sd_i,
                   monitorVars, exc, mon_exit, shutdown_at_exit, historyVars>>

\* Mutant of ForwardedCall: the wrapper passes its arguments on in the wrong
\* order.
ForwardedCall_Swapped(c) == Call(c.cb, c.worker_id, c.task_id)

\* lines 140, 153, 166, 179, 193, 207: the caller's callback gets the
\* arguments the wrapper was called with.
ForwardedCall(c) == c

\* lines 139-140, 152-153, 165-166, 178-179, 192-193, 206-207: the wrapper calls
\* the caller's callback, which may raise, and returns to the dispatcher, which
\* goes on as after any callback.
WrapperForward ==
    /\ run_pc = "wrap_forward"
    /\ forwarded' = IF Forwards(cb_call) THEN Append(forwarded, ForwardedCall(cb_call))
                    ELSE forwarded
    /\ cb_call' = NoCall
    /\ \E raises \in BOOLEAN :
         IF cb_call.cb = "on_exit"
           THEN /\ CallOnExit(raises)
                /\ UNCHANGED <<monitorVars, mon_exit, shutdown_at_exit, delivered,
                               setup_fail_cb>>
           ELSE /\ Dispatch(Msg(TypeFor(cb_call.cb), cb_call.task_id,
                                cb_call.worker_id), raises /\ Forwards(cb_call))
                /\ UNCHANGED on_exit_calls
    /\ UNCHANGED <<configVars, stats, lock, snapshot, calls, updated,
                   shutdown_event, handlers, task_queue, result_queue,
                   queues_closed, feederVars, workerVars, sd_i,
                   emitted, dequeued, n_put, put_log>>

\* lines 314-316: _snapshot, called by the renderer thread while the run goes
\* on, copies the record with the lock held.
Snapshot ==
    /\ overlay
    /\ run_pc \notin {"idle", "returned", "raised"}
    /\ LockFree
    /\ snapshot' = stats
    /\ UNCHANGED <<configVars, stats, lock, cb_call, calls, forwarded, updated,
                   shutdown_event, handlers, task_queue, result_queue,
                   queues_closed, feederVars, workerVars, run_pc, sd_i,
                   monitorVars, exc, mon_exit, shutdown_at_exit, historyVars>>

Wrapper ==
    \/ MonitorCallWrapper
    \/ ExitCallWrapper
    \/ WrapperLock
    \/ WrapperUnlock
    \/ WrapperForward

\* The run thread under the overlay: the callbacks are the wrappers.
NextRich ==
    \/ RunStart
    \/ Feeder
    \/ \E w \in AllGpus : Worker(w)
    \/ MonitorCheckShutdown
    \/ MonitorCheckDone
    \/ MonitorGetEmpty
    \/ Wrapper
    \/ RestoreHandlers
    \/ SetShutdown
    \/ SendSentinel
    \/ JoinWorkers
    \/ TerminateWorker
    \/ KillWorker
    \/ CleanupQueues
    \/ Snapshot

SpecRich == InitRich /\ [][NextRich]_vars

\* ============================================================== properties
\* How many terminal callbacks were dispatched for a task.
TerminalCount(t) ==
    Cardinality({i \in DOMAIN delivered[t] : delivered[t][i] \in TerminalCallbacks})

\* How many on_task_start callbacks were dispatched for a task.
StartCount(t) ==
    Cardinality({i \in DOMAIN delivered[t] : delivered[t][i] = "on_task_start"})

\* run returned to its caller after _monitor ended by normal completion, the
\* shutdown event not having been set while the loop ran.
NormalReturn ==
    /\ run_pc = "returned"
    /\ mon_exit = "normal"
    /\ ~shutdown_at_exit

\* C1. Completeness under normal exit: when run returns and the shutdown event
\* was not set before the monitor loop ended, every task id below the count the
\* feeder published has had exactly one terminal callback dispatched.
C1_Completeness ==
    NormalReturn => \A t \in 0..(task_count - 1) : TerminalCount(t) = 1

\* A normal return after three tasks, one of each terminal kind.
C1_Witness ==
    /\ NormalReturn
    /\ task_count = 3
    /\ \E a, b, c \in 0..2 :
         /\ delivered[a] = <<"on_task_start", "on_success">>
         /\ delivered[b] = <<"on_task_start", "on_error">>
         /\ delivered[c] = <<"on_task_start", "on_timeout">>

\* C2. No duplicates: no task is taken off the task queue more than once, no
\* task has more than one terminal message or terminal callback, and only ids
\* the feeder has put are dequeued, reported or delivered.
C2_NoDuplicates ==
    \A t \in TaskIds :
        /\ dequeued[t] <= 1
        /\ emitted[t] <= 1
        /\ TerminalCount(t) <= 1
        /\ (dequeued[t] > 0 \/ emitted[t] > 0 \/ delivered[t] # <<>>) => t < n_put
        /\ Cardinality({w \in AllGpus : w_task[w] = t}) <= 1

\* Two workers are in their loops, the only task was taken by one of them and
\* its terminal callback dispatched.
C2_Witness ==
    /\ NumWorkers = 2
    /\ \A w \in Workers : w_pc[w] \in {"loop", "get"}
    /\ dequeued[0] = 1
    /\ TerminalCount(0) = 1

\* Positions of a worker between the dequeue of a task and its terminal put.
TaskPcs == TryBodyPcs \cup HandlerPcs

\* C3. Per-task failure recovery: a worker that took a task either still holds
\* it (or was stopped by the controller while holding it), or has put exactly
\* one terminal message for it and is alive in its loop again; no worker dies
\* of an exception of its own.
C3_TaskRecovery ==
    /\ \A w \in AllGpus : w_pc[w] # "crashed"
    /\ \A t \in TaskIds :
         dequeued[t] = 1 =>
            \/ emitted[t] = 1
            \/ \E w \in AllGpus :
                 w_task[w] = t /\ w_pc[w] \in TaskPcs \cup {"terminated", "killed"}

Reported == {t \in TaskIds : TerminalCount(t) > 0}

\* Tasks for which a worker has put a terminal message on the result queue.
Emitted == {t \in TaskIds : emitted[t] > 0}

\* C5 as stated. Backpressure bound: the payloads read from the stream whose
\* terminal callback was not dispatched yet are at most Q + |workers|.
C5_BackpressureAsStated ==
    n_read - Cardinality(Reported) <= queue_size + NumWorkers

\* C5 amended. The payloads read from the stream for which no worker has put a
\* terminal message yet are at most Q + |workers| + 1: those on the task queue,
\* one per worker, and the one the feeder holds while it waits to put.
C5_Backpressure ==
    n_read - Cardinality(Emitted) <= queue_size + NumWorkers + 1

\* The bound is met: the worker holds a task, the queue is full, the feeder
\* holds the next payload, and an earlier task was already reported.
C5_Witness ==
    /\ n_read - Cardinality(Emitted) = queue_size + NumWorkers + 1
    /\ Cardinality(Emitted) > 0
    /\ feeder_pc \in {"put", "while"}
    /\ Len(task_queue) = queue_size
    /\ \A w \in Workers : w_pc[w] \in TaskPcs

\* C6. Resource release on any exit: when run has returned or raised, the
\* shutdown event is set, no worker process is alive and the queues are closed.
C6_ResourceRelease ==
    RunDone =>
        /\ shutdown_event
        /\ \A w \in Workers : ~is_alive(w)
        /\ queues_closed

\* Positions of run after line 157.
AfterOnExit == {"set_shutdown", "sentinels", "join", "terminate", "kill", "cleanup",
                "returned", "raised"}

\* C7. on_exit exactly once: however _monitor was left (normal completion,
\* shutdown, the fatal error, an exception of a callback), on_exit has been
\* invoked once when run is past line 157, and not before.
C7_OnExitOnce ==
    /\ run_pc \in AfterOnExit => on_exit_calls = 1
    /\ run_pc \notin AfterOnExit => on_exit_calls = 0
    /\ RunDone => mon_exit \in {"normal", "shutdown", "fatal", "callback"}

\* run raised the exception of a user callback, or the fatal error, after
\* on_exit was invoked once.
C7_Witness ==
    /\ run_pc = "raised"
    /\ exc \in {"callback", "fatal"}
    /\ on_exit_calls = 1

\* Every worker's setup raised.
AllSetupFailed == \A w \in Workers : w_pc[w] = "setup_failed"

\* run has ended, nobody asked for a shutdown while the monitor loop ran, and no
\* user callback raised.
UndisturbedEnd ==
    /\ RunDone
    /\ ~shutdown_at_exit
    /\ mon_exit # "callback"
    /\ exc # "on_exit"

\* run raised the fatal error, on_setup_fail was invoked once per worker, and no
\* terminal callback was dispatched.
FatalOutcome ==
    /\ run_pc = "raised"
    /\ exc = "fatal"
    /\ \A w \in Workers : setup_fail_cb[w] = 1
    /\ \A t \in TaskIds : delivered[t] = <<>>

\* C8 as stated. Total setup failure is fatal for every input stream.
C8_TotalFailureAsStated ==
    (UndisturbedEnd /\ AllSetupFailed) => FatalOutcome

\* C8 amended. Total setup failure is fatal for every input stream from which
\* the feeder has enqueued and counted at least one task.
C8_TotalFailure ==
    (UndisturbedEnd /\ AllSetupFailed /\ task_count >= 1) => FatalOutcome

\* Both workers of a pool failed their setup and run raised the fatal error.
C8_Witness ==
    /\ NumWorkers = 2
    /\ UndisturbedEnd
    /\ AllSetupFailed
    /\ task_count >= 1
    /\ FatalOutcome

\* C9. Partial setup failure is not fatal: _monitor raises the fatal error only
\* when every worker's setup raised; and when some worker's setup raised and
\* run ends undisturbed with a worker that passed setup, run has returned and
\* every task below the published count has its terminal callback.
C9_PartialFailure ==
    /\ mon_exit = "fatal" => AllSetupFailed
    /\ (/\ UndisturbedEnd
        /\ \E w \in Workers : w_pc[w] = "setup_failed"
        /\ ~AllSetupFailed)
       => /\ run_pc = "returned"
          /\ \A t \in 0..(task_count - 1) : TerminalCount(t) = 1

\* One worker of the pool failed its setup and was reported, the other did the
\* task, and run returned.
C9_Witness ==
    /\ NumWorkers = 2
    /\ UndisturbedEnd
    /\ \E w \in Workers : w_pc[w] = "setup_failed" /\ setup_fail_cb[w] = 1
    /\ \E w \in Workers : w_pc[w] = "exited"
    /\ task_count = 1
    /\ TerminalCount(0) = 1
    /\ run_pc = "returned"

\* C10 as stated. Setup failures are reported: when run ends and was not shut
\* down externally, on_setup_fail was invoked exactly once for every worker
\* whose setup raised.
C10_SetupFailReportedAsStated ==
    UndisturbedEnd =>
        \A w \in Workers : w_pc[w] = "setup_failed" => setup_fail_cb[w] = 1

\* The SetupFailed message of a worker is on the result queue.
SetupFailedPending(w) ==
    \E i \in DOMAIN result_queue :
        result_queue[i].type = "SetupFailed" /\ result_queue[i].worker_id = w

\* C10 amended. on_setup_fail is invoked at most once per worker and only for a
\* worker whose setup raised; while the monitor loop runs, the failure of such
\* a worker was either reported or its SetupFailed message is waiting on the
\* result queue; a message still waiting when the loop ends is dropped.
C10_SetupFailReported ==
    \A w \in Workers :
        /\ setup_fail_cb[w] <= 1
        /\ setup_fail_cb[w] = 1 => w_pc[w] = "setup_failed"
        /\ (w_pc[w] = "setup_failed" /\ mon_exit = "none")
              => (setup_fail_cb[w] = 1) # SetupFailedPending(w)

\* A worker's setup failure was reported once and run returned normally.
C10_Witness ==
    /\ NormalReturn
    /\ \E w \in Workers : w_pc[w] = "setup_failed" /\ setup_fail_cb[w] = 1
    /\ \E t \in TaskIds : TerminalCount(t) = 1

\* A SIGINT or SIGTERM is delivered to the controller while run is executing.
SignalDelivered == SignalHandler \/ SigintInFinally \/ SigtermInFinally

\* C11. Caller interrupt: a signal delivered while run is executing, in the
\* monitor phase or in the shutdown sequence, sets the shutdown event and does
\* nothing else: run goes on where it was, to return after cleanup, and no
\* exception is raised.
C11_CallerInterrupt ==
    [][SignalDelivered =>
         /\ shutdown_event'
         /\ run_pc' = run_pc
         /\ exc' = exc]_vars

\* C12. Shutdown liveness: once the shutdown event is set, run comes to its
\* end, with no worker process alive when on_exit came back, whether or not a
\* sentinel found room on the task queue; and the feeder leaves its loop even
\* when it was waiting on a full queue.
C12_ShutdownLiveness ==
    /\ shutdown_event ~>
          (RunDone /\ (exc # "on_exit" => \A w \in Workers : ~is_alive(w)))
    /\ shutdown_event ~> (feeder_pc = "done")

\* The event was set while the monitor loop ran; the feeder left its loop on
\* it, the worker was still busy and had to be stopped by force, and run
\* returned.
C12_Witness ==
    /\ run_pc = "returned"
    /\ mon_exit = "shutdown"
    /\ feeder_exit = "shutdown"
    /\ n_put = 2
    /\ \E w \in Workers : w_pc[w] \in {"terminated", "killed"} /\ w_task[w] # NoTask

\* Only line 160 of run's finally block has set the shutdown event.
NoExternalShutdown ==
    shutdown_event => run_pc \in {"sentinels", "join", "terminate", "kill", "cleanup",
                                  "returned", "raised"}

\* A worker has come out of setup without an exception.
SomeWorkerReady ==
    \E w \in Workers : w_pc[w] \notin {"not_spawned", "setup", "setup_failed"}

\* C13. Normal-completion liveness: in a run with a finite stream where some
\* worker completes setup, nobody asks for a shutdown and no callback raises,
\* every process call ending one way or another, the monitor's condition
\* becomes true and run returns.
C13_NormalCompletion ==
    ([]NoExternalShutdown /\ [](exc = "none") /\ <>SomeWorkerReady)
        => <>(run_pc = "returned" /\ mon_exit = "normal")

\* The ways a process call ends by itself: it returns, raises, or is
\* interrupted by the worker's own alarm.
ProcessEnded == {"returned", "exc", "texc"}

NothingCreated ==
    /\ ~created
    /\ ~shutdown_event
    /\ task_queue = <<>> /\ result_queue = <<>>
    /\ \A w \in AllGpus : w_pc[w] = "not_spawned"
    /\ feeder_pc = "not_started"

\* C15. Configuration errors are synchronous: with a worker class that is no
\* BaseWorker subclass, or with an empty gpu list, the constructor raises
\* (TypeError, ValueError), run is never entered and nothing is created.
C15_ConfigErrors ==
    /\ run_pc = "new" => NothingCreated
    /\ (worker_cls # "BaseWorker" \/ gpu_ids = <<>>) =>
          /\ run_pc \in {"new", "init_raised"}
          /\ NothingCreated
          /\ run_pc = "init_raised" =>
                exc = (IF worker_cls # "BaseWorker" THEN "TypeError" ELSE "ValueError")
    /\ run_pc = "init_raised" => (worker_cls # "BaseWorker" \/ gpu_ids = <<>>)

\* The constructor has raised ValueError for an empty gpu list.
C15_Witness ==
    /\ run_pc = "init_raised"
    /\ exc = "ValueError"
    /\ gpu_ids = <<>>
    /\ NothingCreated

\* C16. Queue-size validation: a queue_size below 1 is refused before anything
\* is created, so every run that starts has a task queue of capacity
\* queue_size >= 1.
C16_QueueSizeValidated ==
    created => (queue_size >= 1 /\ Len(task_queue) <= queue_size)

\* C17. Task ids are contiguous: the ids the feeder has put on the task queue
\* are 0, 1, ..., k-1 in this order, one put each, and the ids waiting on the
\* queue are in increasing order, under every interleaving with the workers
\* and with the shutdown event.
C17_ContiguousIds ==
    /\ Len(put_log) = n_put
    /\ \A i \in DOMAIN put_log : put_log[i] = i - 1
    /\ \A i, j \in DOMAIN task_queue :
         (i < j /\ task_queue[i] # STOP /\ task_queue[j] # STOP)
            => task_queue[i] < task_queue[j]

\* Three puts, the second and third retried after Full or not, and the feeder
\* then left its loop on the shutdown event.
C17_Witness ==
    /\ put_log = <<0, 1, 2>>
    /\ feeder_exit = "shutdown"
    /\ feeder_pc = "done"

\* C18. Published count equals items read: once the feeder has left its loop,
\* by exhaustion, on the shutdown event or on an exception of the stream, the
\* count it published is the number of items it read, and the ids it put are
\* those below that count.
C18_CountEqualsRead ==
    feeder_pc = "done" =>
        /\ task_count = n_read
        /\ \A i \in DOMAIN put_log : put_log[i] < task_count

\* C19. Feeder exception is non-fatal: when the stream raised after k items
\* were put, the feeder has published N = k and set its stop event; and when
\* such a run ends without a shutdown request, a raising callback or the fatal
\* setup error, it has returned through normal completion with one terminal
\* callback for each of the k tasks.
C19_FeederException ==
    feeder_exit = "raised" =>
        /\ feeder_stop
        /\ task_count = n_put
        /\ task_count = n_read
        /\ (UndisturbedEnd /\ mon_exit # "fatal") =>
              /\ run_pc = "returned"
              /\ mon_exit = "normal"
              /\ \A t \in 0..(task_count - 1) : TerminalCount(t) = 1

\* The stream raised after two items; both tasks were reported and run
\* returned.
C19_Witness ==
    /\ feeder_exit = "raised"
    /\ task_count = 2
    /\ run_pc = "returned"
    /\ mon_exit = "normal"
    /\ ~shutdown_at_exit
    /\ \A t \in 0..1 : TerminalCount(t) = 1

\* The shutdown sequence of run has been carried out to its end.
ShutdownCompleted ==
    /\ shutdown_event
    /\ \A w \in Workers : ~is_alive(w)
    /\ queues_closed

\* C20 as stated. Unexpected exceptions are surfaced after shutdown: when the
\* input stream raised in the feeder, or a user callback raised in the monitor,
\* run ends by raising to its caller, after the shutdown sequence has
\* completed (on_exit not raising).
C20_SurfacedAsStated ==
    (RunDone /\ exc # "on_exit" /\ (feeder_exit = "raised" \/ mon_exit = "callback"))
        => (run_pc = "raised" /\ ShutdownCompleted)

\* C20 amended. An exception a user callback raised in the monitor ends run by
\* raising, and when it is that exception run raises, the shutdown sequence has
\* completed; an exception of the input stream leaves the monitor to its normal
\* end and is never what run raises.
C20_Surfaced ==
    /\ (RunDone /\ mon_exit = "callback") => run_pc = "raised"
    /\ (run_pc = "raised" /\ exc = "callback") => ShutdownCompleted
    /\ (RunDone /\ feeder_exit = "raised" /\ mon_exit = "normal")
          => (run_pc = "returned" \/ exc \in {"on_exit", "KeyboardInterrupt"})

\* A callback raised while the worker was busy; the worker was stopped by
\* force, the queues closed, and run raised the callback's exception.
C20_Witness ==
    /\ run_pc = "raised"
    /\ exc = "callback"
    /\ ShutdownCompleted
    /\ \E w \in Workers : w_pc[w] = "killed"

\* C21. Signal handlers are framed: once run has returned or raised, the
\* SIGINT and SIGTERM handlers are the ones in place before the call, and a run
\* on a thread other than the main one never has another handler in place.
C21_HandlersFramed ==
    /\ RunDone => handlers = "default"
    /\ ~is_main_thread => handlers = "default"

\* The sum over the workers in S of the per-worker counter f of the record st.
RECURSIVE SumWorkers(_, _, _)
SumWorkers(S, f, st) ==
    IF S = {} THEN 0
    ELSE LET w == CHOOSE x \in S : TRUE
         IN st.gpu_status[w][f] + SumWorkers(S \ {w}, f, st)

\* The counters of a statistics record agree with each other.
Consistent(st) ==
    /\ st.total = st.completed + st.failed + st.timeouts
    /\ \A f \in {"completed", "failed", "timeouts"} :
         st[f] = SumWorkers(DOMAIN st.gpu_status, f, st)

\* C22. Statistics consistency: every snapshot taken with the lock held, and
\* the record itself whenever the lock is free, has total = completed + failed
\* + timeouts and each of the three equal to the sum of the per-worker
\* counters; after a run that ended by normal completion, total is the number
\* of tasks the feeder counted.
C22_StatsConsistent ==
    /\ Consistent(snapshot)
    /\ ~lock => Consistent(stats)
    /\ (overlay /\ NormalReturn) => stats.total = task_count

\* A run of two tasks under the overlay returned normally, one task having
\* succeeded and one failed, and the last snapshot was taken between the two.
C22_Witness ==
    /\ overlay
    /\ NormalReturn
    /\ task_count = 2
    /\ stats.completed = 1
    /\ stats.failed = 1
    /\ snapshot.total = 1

\* The status changes of a worker the overlay may make while the wrapper of
\* callback cb is running.
StatusStep(a, b, cb) ==
    \/ a = "initializing" /\ b = "processing"
    \/ a = "processing" /\ b = "idle"
    \/ a = "idle" /\ b = "processing"
    \/ a \notin {"error", "finished"} /\ b = "finished" /\ cb = "on_exit"
    \/ a \notin {"error", "finished"} /\ b = "error" /\ cb = "on_setup_fail"

\* C23. Per-worker status state machine: under the overlay every worker is
\* initializing until the first callback; its status changes only along
\* initializing -> processing, processing -> idle, idle -> processing, to
\* finished from a status that is not error (in the exit wrapper) and to error
\* (in the setup-failure wrapper); error and finished are never left; and once
\* run has returned every worker is finished or in error.
C23_StatusMachine ==
    /\ [](overlay =>
            /\ calls = <<>> =>
                  \A w \in Workers : stats.gpu_status[w].status = "initializing"
            /\ run_pc = "returned" =>
                  \A w \in Workers : stats.gpu_status[w].status \in {"finished", "error"})
    /\ [][overlay =>
            \A w \in Workers :
                stats'.gpu_status[w].status # stats.gpu_status[w].status =>
                    StatusStep(stats.gpu_status[w].status, stats'.gpu_status[w].status,
                               cb_call.cb)]_vars

\* The invocations of a sequence that are of callbacks the caller supplied.
RECURSIVE Supplied(_)
Supplied(cs) ==
    IF cs = <<>> THEN <<>>
    ELSE IF Head(cs).cb \in user_callbacks THEN <<Head(cs)>> \o Supplied(Tail(cs))
    ELSE Supplied(Tail(cs))

\* The invocations of the wrappers that have returned to the dispatcher.
Handled == IF cb_call = NoCall THEN calls ELSE SubSeq(calls, 1, Len(calls) - 1)

\* C24. The statistics overlay is transparent: the invocations of the caller's
\* callbacks are, in order and with the same arguments, the invocations the
\* dispatcher made of the wrappers whose callback the caller supplied, one for
\* one; and each is made after the wrapper has updated the record and released
\* the lock.
C24_Transparent ==
    /\ [](overlay =>
            /\ forwarded = Supplied(Handled)
            /\ cb_call # NoCall => cb_call = calls[Len(calls)]
            /\ updated \in {Len(Handled), Len(calls)})
    /\ [][forwarded' # forwarded =>
            /\ ~lock
            /\ updated = Len(calls)
            /\ forwarded' = Append(forwarded, cb_call)]_vars

\* A run of two tasks on one worker returned with every callback supplied: two
\* starts, two results and the exit were forwarded.
C24_Witness ==
    /\ overlay
    /\ run_pc = "returned"
    /\ user_callbacks = Callbacks
    /\ Len(forwarded) = 5
    /\ forwarded[3] = Call("on_task_start", 1, 0)
    /\ forwarded[5] = Call("on_exit", NoTask, NoTask)

\* C25. Shutdown step order a-b: whenever on_exit has been invoked, the
\* shutdown event and the feeder's stop event were set before.
C25_ShutdownSetBeforeOnExit ==
    on_exit_calls > 0 => (shutdown_event /\ feeder_stop)

\* C26. Shutdown step f is last: in a run on the main thread run's handlers
\* stay installed through the whole finally block, and the original handlers
\* are back only once both queues were drained and closed.
C26_HandlersRestoredLast ==
    is_main_thread =>
        /\ run_pc \in FinallyPcs => handlers = "handler"
        /\ (created /\ handlers = "default") => queues_closed

\* How many stop sentinels a queue holds.
StopCount(q) == Cardinality({i \in DOMAIN q : q[i] = STOP})

\* run enters the stage `to` of its shutdown sequence, and does so from the last
\* element of the stage `from`.
EntersOnlyFrom(to, from) ==
    (run_pc' = to /\ run_pc # to) => (run_pc = from /\ sd_i = NumWorkers)

\* C27. Escalation order: a sentinel is enqueued only in the sentinel loop,
\* after on_exit was invoked, one loop element per worker and at most one
\* sentinel per element; the joins follow the last element of that loop; a
\* worker is terminated only in the loop that follows the joins, and only when
\* alive; it is killed only in the loop that follows the whole terminate loop,
\* and only when still alive; the queues are drained and closed only after
\* the whole kill loop.
C27_EscalationOrder ==
    [][/\ StopCount(task_queue') > StopCount(task_queue) =>
            /\ run_pc = "sentinels"
            /\ on_exit_calls >= 1
            /\ sd_i \in 1..NumWorkers
            /\ StopCount(task_queue') = StopCount(task_queue) + 1
            /\ sd_i' = sd_i + 1 \/ run_pc' = "join"
       /\ (run_pc' = run_pc /\ sd_i' # sd_i) => sd_i' = sd_i + 1
       /\ EntersOnlyFrom("join", "sentinels")
       /\ (run_pc' = "terminate" /\ run_pc # "terminate") => run_pc = "join"
       /\ EntersOnlyFrom("kill", "terminate")
       /\ EntersOnlyFrom("cleanup", "kill")
       /\ \A w \in AllGpus :
            /\ (w_pc'[w] = "terminated" /\ w_pc[w] # "terminated") =>
                   (run_pc = "terminate" /\ w = gpu_ids[sd_i] /\ is_alive(w))
            /\ (w_pc'[w] = "killed" /\ w_pc[w] # "killed") =>
                   (run_pc = "kill" /\ w = gpu_ids[sd_i] /\ is_alive(w))
       /\ (queues_closed' /\ ~queues_closed) => run_pc = "cleanup"
      ]_vars

\* run has returned from a pool of two: one worker left on its sentinel, the
\* other outlived terminate and was killed.
C27_Witness ==
    /\ run_pc = "returned"
    /\ NumWorkers = 2
    /\ \E v, w \in Workers : w_pc[v] = "exited" /\ w_pc[w] = "killed"

\* C28. Channels are empty when closed: from the moment _cleanup_queues has
\* drained the queues, through their close and after it, neither queue holds
\* a message.
C28_EmptyWhenClosed ==
    (run_pc = "close" \/ queues_closed) => (task_queue = <<>> /\ result_queue = <<>>)

\* Positions of a worker inside its main loop (worker.py lines 53-91).
LoopPcs == {"loop", "get"} \cup TaskPcs

\* The messages of worker w that a step appends to the result queue.
Emits(w) ==
    {result_queue'[i].type : i \in {j \in DOMAIN result_queue' :
                                       /\ j > Len(result_queue)
                                       /\ result_queue'[j].worker_id = w}}

\* C29. Worker lifecycle: SetupFailed is put only by the failing setup, after
\* which the worker takes no further step: it puts nothing, dequeues nothing
\* and never runs cleanup; a worker in its loop leaves it, of its own, only
\* for cleanup, on the stop sentinel or on seeing the shutdown event; cleanup
\* runs once and puts at most one CleanupFailed.
C29_WorkerLifecycle ==
    [][\A w \in AllGpus :
         /\ w_pc[w] = "setup_failed" => w_pc'[w] = "setup_failed"
         /\ "SetupFailed" \in Emits(w) =>
                (w_pc[w] = "setup" /\ w_pc'[w] = "setup_failed")
         /\ Emits(w) # {} => is_alive(w)
         /\ (w_pc[w] \in LoopPcs /\ w_pc'[w] \notin LoopPcs) =>
                \/ w_pc'[w] \in {"terminated", "killed"}
                \/ /\ w_pc'[w] = "cleanup"
                   /\ \/ w_pc[w] = "loop" /\ shutdown_event
                      \/ w_pc[w] = "get" /\ task_queue # <<>> /\ Head(task_queue) = STOP
         /\ (w_pc'[w] = "cleanup" /\ w_pc[w] # "cleanup") => w_pc[w] \in LoopPcs
         /\ w_pc[w] = "exited" => w_pc'[w] = "exited"
         /\ "CleanupFailed" \in Emits(w) =>
                (w_pc[w] = "cleanup" /\ w_pc'[w] = "exited")
      ]_vars

\* The payloads on the task queue.
Queued == Cardinality({i \in DOMAIN task_queue : task_queue[i] # STOP})

\* The payload the feeder has read and is trying to put.
InHand == IF feeder_pc \in {"put", "while"} THEN 1 ELSE 0

\* C30. Feeder-side memory bound: the payloads read from the stream and not
\* yet taken by a worker, those on the task queue and the one the feeder is
\* trying to put, are at most queue_size + 1.
C30_FeederBound ==
    Queued + InHand <= queue_size + 1

\* ceil of the rational num/den, den > 0.
ceil(num, den) == -((-num) \div den)

\* A worker takes a task off the queue and arms its alarm (lines 60-72).
Arms(w) == w_pc[w] = "get" /\ w_pc'[w] = "started" /\ ArmsAlarm

\* C31: when task_timeout is configured, the alarm armed before each task is
\* ceil(task_timeout + 0.5) whole seconds and never less than 1 second, for
\* every task_timeout given in tenths of a second.
C31_AlarmDuration ==
    [][\A w \in Workers :
         Arms(w) => /\ w_alarm'[w] = max(1, ceil(timeout_tenths + 5, 10))
                    /\ w_alarm'[w] >= 1]_vars

\* What the code arms instead: task_timeout rounded to the nearest second, halves
\* up, and never less than 1 second.
C31_AlarmRounded ==
    [][\A w \in Workers :
         Arms(w) => /\ w_alarm'[w] = max(1, (timeout_tenths + 5) \div 10)
                    /\ w_alarm'[w] >= 1]_vars

\* A worker is between the dequeue of a task and the put of its terminal message.
InTask(w) ==
    /\ w_pc[w] \in TryBodyPcs \cup HandlerPcs
    /\ w_task[w] \in TaskIds
    /\ emitted[w_task[w]] < dequeued[w_task[w]]

\* C32: an alarm is pending in a running worker only between the dequeue of a
\* task and the put of that task's terminal message, and only when task_timeout
\* is configured; a worker that is in setup, at the top of its loop, waiting on
\* the task queue, in cleanup, or has exited has no alarm pending, whichever
\* way the task body was left.
C32_NoOrphanTimers ==
    \A w \in Workers :
        /\ (w_alarm[w] > 0 /\ is_alive(w)) => (InTask(w) /\ ArmsAlarm)
        /\ w_pc[w] \in {"setup", "setup_failed", "loop", "get", "cleanup", "exited",
                        "crashed"}
             => w_alarm[w] = 0

\* Witness for C32: with a timeout configured, a worker has left its loop after
\* tasks that ended by a return, by the alarm and by another exception.
C32_Witness ==
    /\ task_timeout = "set"
    /\ \E w \in Workers : w_pc[w] = "cleanup" /\ w_alarm[w] = 0
    /\ \A type \in Terminal :
         \E t \in TaskIds : \E i \in DOMAIN delivered[t] :
            delivered[t][i] = CallbackFor(type)

\* A worker puts a TaskTimeout message for the task it holds (line 85).
PutsTimeout(w) ==
    /\ w_pc[w] \in TryBodyPcs \cup HandlerPcs
    /\ result_queue' = Append(result_queue, Msg("TaskTimeout", w_task[w], w))

\* C33: a TaskTimeout message is put for a task only when task_timeout is
\* configured and the alarm fired during that task (the one-shot alarm armed at
\* the dequeue is no longer pending: nothing else disarms it before the
\* message); an exception process raises itself is never reported as
\* TaskTimeout, and with task_timeout absent no TaskTimeout is ever on the
\* result queue.
C33_TimeoutMeansAlarm ==
    /\ [](task_timeout = "None" =>
            \A i \in DOMAIN result_queue : result_queue[i].type # "TaskTimeout")
    /\ [][\A w \in Workers :
            PutsTimeout(w) => (task_timeout = "set" /\ w_alarm[w] = 0)]_vars

\* C34: whenever the feeder has exited, the count it published equals the
\* number of its puts on the task queue that succeeded, also when the shutdown
\* event is set between a put and the feeder's next look at the event.
C34_CountEqualsPuts ==
    feeder_pc = "done" => task_count = n_put

\* Without a shutdown the published count is the number of successful puts.
C34_CountWithoutShutdown ==
    (feeder_pc = "done" /\ feeder_exit # "shutdown") => task_count = n_put

\* A call of run has reached _monitor: its queues and its event were just made.
RunBegins == run_pc \in {"idle", "returned", "raised"} /\ run_pc' = "mon_shutdown_chk"

\* C35: every run starts with new, empty and open queues and a new shutdown
\* event that is not set, whatever was requested during or after the run
\* before; shutdown() has no effect before the first run has made its event;
\* and within a run the event, once set, stays set.
C35_RunsIndependent ==
    /\ [][RunBegins => /\ ~shutdown_event'
                       /\ task_queue' = <<>> /\ result_queue' = <<>>
                       /\ ~queues_closed']_vars
    /\ [][~created' => ~shutdown_event']_vars
    /\ [][(shutdown_event /\ ~RunBegins) => shutdown_event']_vars

\* Witness for C35: the run before was left with its shutdown event set by a
\* signal or by shutdown(), and the run that followed has dispatched results and
\* left _monitor because its work was done, its own event not set.
C35_Witness ==
    /\ past_runs = 1
    /\ past_shutdown
    /\ mon_exit = "normal"
    /\ ~shutdown_at_exit
    /\ \E t \in TaskIds : delivered[t] # <<>>

\* _monitor was left because the feeder was done and every counted result had
\* arrived (lines 258-259), and run is in or past its finally block.
LeftNormally == mon_exit = "normal" /\ run_pc \in FinallyPcs \cup {"returned", "raised"}

\* The task queue holds no task and no worker is between the dequeue of a task
\* and its terminal message.
Quiescent ==
    /\ \A i \in DOMAIN task_queue : task_queue[i] = STOP
    /\ \A w \in Workers : w_pc[w] \notin TaskPcs

\* One pass of the loop of lines 206-210.
SentinelStep == run_pc = "sentinels" /\ (sd_i' # sd_i \/ run_pc' = "join")

\* C36: whenever _monitor was left through feeder_stop and results_received >=
\* task_count[0], the task queue holds no task and no worker is inside a task,
\* and every STOP sentinel of the shutdown sequence is put on the queue.
C36_QuiescentExit ==
    /\ [](LeftNormally => Quiescent)
    /\ [][(mon_exit = "normal" /\ SentinelStep)
            => task_queue' = Append(task_queue, STOP)]_vars

\* The first half of C36 alone.
C36_QuiescentOnly == LeftNormally => Quiescent

\* The first half of C36 when the feeder published the number of its puts.
C36_QuiescentWhenCounted == (LeftNormally /\ task_count = n_put) => Quiescent

\* The second half of C36 alone.
C36_SentinelsFit ==
    [][(mon_exit = "normal" /\ SentinelStep)
         => task_queue' = Append(task_queue, STOP)]_vars

\* The second half of C36 when the queue has a slot for every worker.
C36_SentinelsFitWhenRoom ==
    [][(mon_exit = "normal" /\ SentinelStep
        /\ queue_size >= NumWorkers /\ task_count = n_put)
         => task_queue' = Append(task_queue, STOP)]_vars

====
